---- MODULE Spec2Model ----
(***************************************************************************)
(* A model of the PDF ingestion pipeline: the HTTP endpoint ingest_pdf,    *)
(* the two variants of pdf_to_docling_with_ocr (app/ and src/), the        *)
(* embedding step create_embeddings_from_markdown and the two variants of  *)
(* send_embed_to_qdrant, run against a vector store (Qdrant), a file       *)
(* system and an object bucket.                                            *)
(*                                                                         *)
(* A task is one call of one entry point.  The steps of a call are cut at  *)
(* its blocking I/O calls (store, provider, converter), so that calls of   *)
(* different tasks interleave there.                                       *)
(*                                                                         *)
(* Abstractions: a vector is modelled by its length; a Markdown page by    *)
(* the pair <<task, page number>>; a uuid4 by a fresh counter value.       *)
(* The vector store is Qdrant seen through its client: create_collection   *)
(* on an existing name is refused ("already exists"), an upsert of a       *)
(* vector whose length differs from the collection's size is refused as a  *)
(* whole, and a refused or failed upsert writes nothing.                   *)
(***************************************************************************)
EXTENDS Integers, Sequences, FiniteSets, TLC

\* ------------------------------------------------------------------ bounds

MaxPages == 2

MaxDocs == 2

\* the most page files a folder given to the app variant of
\* concat_markdown_pages_into_file holds (above 9: two-digit page numbers)
MaxConcatPages == 11

Tasks == {"t1", "t2"}

CollectionNames == {"testdoc", "other"}

PdfNames == {"x"}

\* the output sizes an embedding model may have
Dims == {768, 1024}

\* what the environment may do to a call: nothing, the embedding provider
\* raises, the store raises on upsert
Faults == {"none", "provider", "store"}

\* ------------------------------------------------------- program constants

\* VectorParams(size=1024, ...) of the app variant
HardcodedSize == 1024

\* required positional parameters of pdf_to_docling_with_ocr (app variant):
\* pdf_path and collection_name
RequiredArgs == 2

\* positional arguments ingest_pdf passes to pdf_to_docling_with_ocr
PassedArgs == 1

Cosine == "COSINE"

\* the value of a Python function that ends without a return statement,
\* where a path is expected: a path p is <<p>>
None == <<>>

GatewayEntries == {"app_send", "src_send"}

\* ------------------------------------------------------------------- state

VARIABLES
    collections,   \* the store: set of [name, size, metric]
    points,        \* the store: set of [id, coll, vector, by, page]
    nextId,        \* the next fresh point identifier
    files,         \* the file system: set of [path, content, by]
    bucket,        \* the object bucket: set of [key, content]
    createLog,     \* the collections created, in order of creation
    pc,            \* per task: the position of its call
    arg,           \* per task: the entry point called and its arguments
    loc,           \* per task: the locals of its call
    out            \* per task: how the call ended and what it gave back

vars == <<collections, points, nextId, files, bucket, createLog, pc, arg, loc, out>>

NoArg ==
    [entry |-> "none", coll |-> "testdoc", ndocs |-> 0, dim |-> HardcodedSize,
     fault |-> "none", pdfname |-> "x", npages |-> 0, badPage |-> 0,
     corrupt |-> FALSE, isPdf |-> TRUE, suffix |-> ".pdf",
     strategy |-> "recursive_character", text |-> [rec |-> 1, sem |-> 1],
     present |-> TRUE]

NoLoc ==
    [i |-> 0, storeCalls |-> 0, embedCalls |-> 0, sawAbsent |-> FALSE,
     ensured |-> FALSE,
     attempts |-> [p \in 1..MaxPages |-> 0], converted |-> {},
     mdpages |-> <<>>, mdfile |-> None, uploads |-> 0, results |-> <<>>,
     uploaded |-> <<>>, producedBy |-> "", documents |-> 0]

NoOut ==
    [state |-> "none", error |-> "", at |-> "", status |-> 0, detail |-> "",
     result |-> <<>>]

Init ==
    /\ collections = {}
    /\ points = {}
    /\ nextId = 1
    /\ files = {}
    /\ bucket = {}
    /\ createLog = <<>>
    /\ pc = [t \in Tasks |-> "idle"]
    /\ arg = [t \in Tasks |-> NoArg]
    /\ loc = [t \in Tasks |-> NoLoc]
    /\ out = [t \in Tasks |-> NoOut]

\* ------------------------------------------------------- the vector store

collection_exists_never(colls, name) == FALSE

\* client.collection_exists(collection_name) /
\* collection_name in [c.name for c in client.get_collections().collections]
collection_exists(colls, name) == \E c \in colls : c.name = name

CollectionOf(colls, name) == CHOOSE c \in colls : c.name = name

\* client.create_collection(collection_name, VectorParams(size, COSINE)):
\* the store refuses a name it already holds
create_collection(colls, name, size) ==
    IF \E c \in colls : c.name = name
    THEN [ok |-> FALSE, colls |-> colls]
    ELSE [ok |-> TRUE,
          colls |-> colls \cup {[name |-> name, size |-> size, metric |-> Cosine]}]

PointStructPadded(id, vector, t, page, coll) ==
    [id |-> id, coll |-> coll, vector |-> HardcodedSize, by |-> t, page |-> page]

\* PointStruct(id=str(uuid4()), vector=vector, payload=doc.metadata): the
\* provider's vector as it came
PointStruct(id, vector, t, page, coll) ==
    [id |-> id, coll |-> coll, vector |-> vector, by |-> t, page |-> page]

\* the points of one call: one per document, identifiers fresh
PointsOf(t, coll, n, dim, page, first) ==
    {PointStruct(first + k, dim, t, page, coll) : k \in 0..(n - 1)}

\* client.upsert(collection_name, points): all points or none
upsert(colls, pts, name, new, fault) ==
    IF fault = "store" THEN [ok |-> FALSE, error |-> "UpsertFailure", pts |-> pts]
    ELSE IF ~ \E c \in colls : c.name = name
    THEN [ok |-> FALSE, error |-> "CollectionNotFound", pts |-> pts]
    ELSE IF \E p \in new : p.vector # CollectionOf(colls, name).size
    THEN [ok |-> FALSE, error |-> "DimensionMismatch", pts |-> pts]
    ELSE [ok |-> TRUE, error |-> "", pts |-> pts \cup new]

\* -------------------------------------------------------- the file system

Path(root, owner, name, page) ==
    [root |-> root, owner |-> owner, name |-> name, page |-> page]

\* open(path, "w") ... write(content): the file is created or replaced
WriteFile(fs, path, content, t) ==
    {f \in fs : f.path # path}
        \cup {[path |-> path, kind |-> "file", content |-> content, by |-> t]}

\* os.makedirs / tempfile.TemporaryDirectory
MakeDir(fs, path, t) ==
    IF \E f \in fs : f.path = path THEN fs
    ELSE fs \cup {[path |-> path, kind |-> "dir", content |-> <<>>, by |-> t]}

FileExists(fs, path) == \E f \in fs : f.path = path

ReadFile(fs, path) == (CHOOSE f \in fs : f.path = path).content

\* --------------------------------------------------------- how a call ends

\* the temporary directories of the app variant of pdf_to_docling_with_ocr:
\* "with tempfile.TemporaryDirectory() as page_pdf_folder, ... as
\* markdown_folder" removes both, with what they hold, however the block ends
TempRoots == {"tmp_page_pdf", "tmp_markdown"}

ExitFiles(t, fs) ==
    IF arg[t].entry = "app_doc"
    THEN {f \in fs : ~ (f.path.root \in TempRoots /\ f.path.owner = t)}
    ELSE fs

\* an exception leaves the call of task t
Raised(t, err, at, l, fs) ==
    /\ pc' = [pc EXCEPT ![t] = "done"]
    /\ loc' = [loc EXCEPT ![t] = l]
    /\ out' = [out EXCEPT ![t] = [NoOut EXCEPT !.state = "raised", !.error = err,
                                                  !.at = at]]
    /\ files' = ExitFiles(t, fs)

\* the dict create_embeddings_from_markdown returns
EmbeddingResult(t) ==
    [collection_name |-> arg[t].coll, document_count |-> arg[t].ndocs,
     splitter_type |-> arg[t].strategy]

\* send_embed_to_qdrant returned None to its caller: the caller of a direct
\* call, create_embeddings_from_markdown, or through it the page loop of
\* the app variant of pdf_to_docling_with_ocr
SendReturned(t, l) ==
    LET e == arg[t].entry
        l2 == [l EXCEPT !.results = Append(@, EmbeddingResult(t)), !.i = @ + 1]
    IN  CASE e \in GatewayEntries ->
               /\ pc' = [pc EXCEPT ![t] = "done"]
               /\ loc' = [loc EXCEPT ![t] = l]
               /\ out' = [out EXCEPT ![t] = [NoOut EXCEPT !.state = "returned"]]
               /\ files' = files
          [] e = "app_embed" ->
               /\ pc' = [pc EXCEPT ![t] = "done"]
               /\ loc' = [loc EXCEPT ![t] = l]
               /\ out' = [out EXCEPT ![t] = [NoOut EXCEPT !.state = "returned",
                                                         !.result = <<EmbeddingResult(t)>>]]
               /\ files' = files
          [] OTHER ->
               /\ loc' = [loc EXCEPT ![t] = l2]
               /\ IF l2.i = arg[t].npages
                  THEN /\ pc' = [pc EXCEPT ![t] = "done"]
                       /\ out' = [out EXCEPT ![t] = [NoOut EXCEPT !.state = "returned",
                                                                 !.result = l2.results]]
                       /\ files' = ExitFiles(t, files)
                  ELSE /\ pc' = [pc EXCEPT ![t] = "page_convert"]
                       /\ out' = out
                       /\ files' = files

\* ------------------------------------------------- send_embed_to_qdrant

IsApp(t) == arg[t].entry \in {"app_send", "app_embed", "app_doc"}

\* a direct call of send_embed_to_qdrant, either variant
StartSend(t) ==
    /\ pc[t] = "idle"
    /\ \E e \in GatewayEntries, c \in CollectionNames, n \in 0..MaxDocs,
          d \in Dims, f \in Faults :
          arg' = [arg EXCEPT ![t] = [NoArg EXCEPT !.entry = e, !.coll = c,
                                        !.ndocs = n, !.dim = d, !.fault = f]]
    /\ pc' = [pc EXCEPT ![t] = "gw_check"]
    /\ UNCHANGED <<collections, points, nextId, files, bucket, createLog, loc, out>>

\* app: "if not documents: raise 'No documents to process'" (a str is not
\* an exception: TypeError), then client.collection_exists;
\* src: the scan of client.get_collections()
GwCheck(t) ==
    /\ pc[t] = "gw_check"
    /\ UNCHANGED <<collections, points, nextId, bucket, createLog, arg>>
    /\ IF IsApp(t) /\ arg[t].ndocs = 0
       THEN Raised(t, "TypeError", "documents", loc[t], files)
       ELSE LET exists == collection_exists(collections, arg[t].coll)
                l == [loc[t] EXCEPT !.storeCalls = @ + 1,
                                    !.sawAbsent = ~ exists,
                                    !.ensured = exists]
            IN  /\ loc' = [loc EXCEPT ![t] = l]
                /\ pc' = [pc EXCEPT ![t] = IF exists THEN "gw_add" ELSE "gw_create"]
                /\ UNCHANGED <<out, files>>

\* the size of the collection to create: 1024 in the app variant,
\* len(embeddings_model.embed_query("test")) in the src variant
VectorSize(t) == IF IsApp(t) THEN HardcodedSize ELSE arg[t].dim

\* client.create_collection(...); in the app variant inside
\* "try: ... except Exception as e: raise e", in the src variant bare
GwCreate(t) ==
    /\ pc[t] = "gw_create"
    /\ UNCHANGED <<points, nextId, bucket, arg>>
    /\ IF ~ IsApp(t) /\ arg[t].fault = "provider"
       THEN /\ Raised(t, "ProviderError", "ensure",
                      [loc[t] EXCEPT !.embedCalls = @ + 1], files)
            /\ UNCHANGED <<collections, createLog>>
       ELSE LET r == create_collection(collections, arg[t].coll, VectorSize(t))
                l == [loc[t] EXCEPT !.storeCalls = @ + 1,
                                    !.embedCalls = @ + (IF IsApp(t) THEN 0 ELSE 1),
                                    !.ensured = r.ok]
            IN  IF r.ok
                THEN /\ collections' = r.colls
                     /\ createLog' = Append(createLog,
                            [name |-> arg[t].coll, size |-> VectorSize(t),
                             metric |-> Cosine, by |-> t])
                     /\ loc' = [loc EXCEPT ![t] = l]
                     /\ pc' = [pc EXCEPT ![t] = "gw_add"]
                     /\ UNCHANGED <<out, files>>
                ELSE /\ Raised(t, "AlreadyExists", "ensure", l, files)
                     /\ UNCHANGED <<collections, createLog>>

\* app: QdrantVectorStore(client, collection_name, embedding) checks the
\* collection's size against the embedding's output, then add_documents
\* embeds and upserts;
\* src: embed_documents, one PointStruct per (document, vector), client.upsert
GwAdd(t) ==
    /\ pc[t] = "gw_add"
    /\ UNCHANGED <<collections, bucket, createLog, arg>>
    /\ LET n == arg[t].ndocs
           page == IF arg[t].entry = "app_doc" THEN loc[t].i + 1 ELSE 0
           new == PointsOf(t, arg[t].coll, n, arg[t].dim, page, nextId)
           r == upsert(collections, points, arg[t].coll, new, arg[t].fault)
           embedded == [loc[t] EXCEPT !.embedCalls = @ + 1]
           stored == [embedded EXCEPT !.storeCalls = @ + 1]
       IN  IF arg[t].fault = "provider" /\ (IsApp(t) \/ n > 0)
           THEN /\ Raised(t, "ProviderError", "add", embedded, files)
                /\ UNCHANGED <<points, nextId>>
           ELSE IF IsApp(t) /\ arg[t].dim # CollectionOf(collections, arg[t].coll).size
           THEN /\ Raised(t, "DimensionMismatch", "add", stored, files)
                /\ UNCHANGED <<points, nextId>>
           ELSE IF n = 0
           THEN \* an upsert of no points: the store may take it or refuse it
                /\ UNCHANGED <<points, nextId>>
                /\ \/ SendReturned(t, [loc[t] EXCEPT !.storeCalls = @ + 1])
                   \/ Raised(t, "EmptyUpdate", "add",
                             [loc[t] EXCEPT !.storeCalls = @ + 1], files)
           ELSE IF r.ok
           THEN /\ points' = r.pts
                /\ nextId' = nextId + n
                /\ SendReturned(t, stored)
           ELSE /\ Raised(t, r.error, "add", stored, files)
                /\ UNCHANGED <<points, nextId>>

\* ------------------------------------------------ the document collaborators

\* the Markdown of page `page` of the PDF of task t
PageMarkdown(t, page) == <<t, page>>

convert_text_to_markdown_retry(t, page) ==
    [ok |-> arg[t].badPage # page, md |-> PageMarkdown(t, page),
     attempts |-> IF arg[t].badPage = page THEN 2 ELSE 1]

convert_text_to_markdown_swallowed(t, page) ==
    [ok |-> TRUE, md |-> PageMarkdown(t, page), attempts |-> 1]

\* converter.convert(page_path) and export_to_markdown() inside
\* "try: ... except Exception as e: raise e": one attempt, the exception
\* of the converter re-raised
convert_text_to_markdown(t, page) ==
    [ok |-> arg[t].badPage # page, md |-> PageMarkdown(t, page), attempts |-> 1]

save_temporary_md_file_path(page_path) == <<page_path>>

\* save_temporary_md_file writes the page and ends without a return
\* statement: its value is None
save_temporary_md_file(page_path) == None

\* the inputs of a document: its pages, the page whose conversion fails
\* (0: none), whether the file is unreadable
PdfInputs ==
    {[npages |-> n, badPage |-> b, corrupt |-> c] :
        n \in 0..MaxPages, b \in 0..MaxPages, c \in BOOLEAN}

GoodPdf(p) == p.badPage <= p.npages /\ (p.corrupt => p.npages = 0)

\* --------------------------------------- pdf_to_docling_with_ocr, app variant

\* a call of pdf_to_docling_with_ocr(pdf_path, collection_name) of the app
\* variant
StartAppDoc(t) ==
    /\ pc[t] = "idle"
    /\ \E nm \in PdfNames, p \in PdfInputs,
          c \in CollectionNames, d \in Dims, f \in Faults :
          /\ GoodPdf(p)
          /\ arg' = [arg EXCEPT ![t] = [NoArg EXCEPT !.entry = "app_doc", !.coll = c,
                        !.ndocs = 1, !.dim = d, !.fault = f, !.pdfname = nm,
                        !.npages = p.npages, !.badPage = p.badPage,
                        !.corrupt = p.corrupt]]
    /\ pc' = [pc EXCEPT ![t] = "extract"]
    /\ UNCHANGED <<collections, points, nextId, files, bucket, createLog, loc, out>>

\* os.makedirs(output_dir), the two temporary directories, get_pdf_pages
\* ("raise []" on a reader error: TypeError), and on no page
\* "raise 'No pages found ...'" (a str is not an exception: TypeError)
AppExtract(t) ==
    /\ pc[t] = "extract"
    /\ arg[t].entry = "app_doc"
    /\ UNCHANGED <<collections, points, nextId, bucket, createLog, arg>>
    /\ LET fs == MakeDir(MakeDir(MakeDir(files,
                     Path("output", "env", "", 0), t),
                     Path("tmp_page_pdf", t, "", 0), t),
                     Path("tmp_markdown", t, "", 0), t)
       IN  IF arg[t].corrupt
           THEN Raised(t, "TypeError", "extract", loc[t], fs)
           ELSE IF arg[t].npages = 0
           THEN Raised(t, "TypeError", "no_pages", loc[t], fs)
           ELSE /\ files' = fs
                /\ pc' = [pc EXCEPT ![t] = "page_convert"]
                /\ UNCHANGED <<loc, out>>

\* one turn of the page loop up to the embedding call: create_page_path,
\* convert_text_to_markdown, save_temporary_md_file
AppPageConvert(t) ==
    /\ pc[t] = "page_convert"
    /\ UNCHANGED <<collections, points, nextId, bucket, createLog, arg>>
    /\ LET page == loc[t].i + 1
           fs1 == WriteFile(files, Path("tmp_page_pdf", t, arg[t].pdfname, page), <<>>, t)
           conv == convert_text_to_markdown(t, page)
           tried == [loc[t] EXCEPT !.attempts[page] = @ + conv.attempts]
           md_path == Path("tmp_markdown", t, arg[t].pdfname, page)
           fs2 == WriteFile(fs1, md_path, <<conv.md>>, t)
       IN  IF ~ conv.ok
           THEN Raised(t, "ConversionError", "convert", tried, fs1)
           ELSE /\ files' = fs2
                /\ loc' = [loc EXCEPT ![t] =
                              [tried EXCEPT !.converted = @ \cup {page},
                                            !.mdfile = save_temporary_md_file(md_path)]]
                /\ pc' = [pc EXCEPT ![t] = "page_embed"]
                /\ UNCHANGED out

\* a direct call of create_embeddings_from_markdown(markdown_file,
\* collection_name) on a file the caller wrote, or on a path with no file
StartEmbed(t) ==
    /\ pc[t] = "idle"
    /\ \E c \in CollectionNames, d \in Dims, f \in Faults, present \in BOOLEAN :
          LET path == Path("caller", t, "page", 0)
          IN  /\ arg' = [arg EXCEPT ![t] = [NoArg EXCEPT !.entry = "app_embed",
                            !.coll = c, !.ndocs = 1, !.dim = d, !.fault = f]]
              /\ loc' = [loc EXCEPT ![t].mdfile = <<path>>]
              /\ files' = IF present
                          THEN WriteFile(files, path, <<PageMarkdown(t, 0)>>, t)
                          ELSE files
    /\ pc' = [pc EXCEPT ![t] = "page_embed"]
    /\ UNCHANGED <<collections, points, nextId, bucket, createLog, out>>

\* create_embeddings_from_markdown up to its call of send_embed_to_qdrant:
\* default_embed_model(), then create_document_from_markdown opens the file
\* (open(None) is a TypeError) and makes one Document of its whole text
AppPageEmbed(t) ==
    /\ pc[t] = "page_embed"
    /\ UNCHANGED <<collections, points, nextId, bucket, createLog, arg>>
    /\ IF loc[t].mdfile = None
       THEN Raised(t, "TypeError", "open", loc[t], files)
       ELSE IF ~ FileExists(files, loc[t].mdfile[1])
       THEN Raised(t, "FileNotFoundError", "open", loc[t], files)
       ELSE /\ pc' = [pc EXCEPT ![t] = "gw_check"]
            /\ loc' = [loc EXCEPT ![t] = [@ EXCEPT !.producedBy = "whole_file",
                                                   !.documents = 1]]
            /\ UNCHANGED <<out, files>>

\* --------------------------------------- pdf_to_docling_with_ocr, src variant

\* a call of pdf_to_docling_with_ocr(pdf_path) of the src variant
StartSrcDoc(t) ==
    /\ pc[t] = "idle"
    /\ \E nm \in PdfNames, p \in PdfInputs :
          /\ GoodPdf(p)
          /\ arg' = [arg EXCEPT ![t] = [NoArg EXCEPT !.entry = "src_doc",
                        !.pdfname = nm, !.npages = p.npages,
                        !.badPage = p.badPage, !.corrupt = p.corrupt]]
    /\ pc' = [pc EXCEPT ![t] = "extract"]
    /\ UNCHANGED <<collections, points, nextId, files, bucket, createLog, loc, out>>

\* get_pdf_pages ("raise []": TypeError), and on no page "return []"
SrcExtract(t) ==
    /\ pc[t] = "extract"
    /\ arg[t].entry = "src_doc"
    /\ UNCHANGED <<collections, points, nextId, bucket, createLog, arg>>
    /\ IF arg[t].corrupt
       THEN Raised(t, "TypeError", "extract", loc[t], files)
       ELSE IF arg[t].npages = 0
       THEN /\ pc' = [pc EXCEPT ![t] = "done"]
            /\ out' = [out EXCEPT ![t] = [NoOut EXCEPT !.state = "returned"]]
            /\ UNCHANGED <<loc, files>>
       ELSE /\ pc' = [pc EXCEPT ![t] = "src_page"]
            /\ UNCHANGED <<loc, out, files>>

concat_markdown_pages_into_file_append(fs, markdown_pages, path, t) ==
    WriteFile(fs, path,
              (IF FileExists(fs, path) THEN ReadFile(fs, path) ELSE <<>>)
                  \o markdown_pages, t)

\* concat_markdown_pages_into_file(markdown_pages, folder, name): the file
\* is rewritten with the pages of the list, in the order of the list
concat_markdown_pages_into_file(fs, markdown_pages, path, t) ==
    WriteFile(fs, path, markdown_pages, t)

\* one turn of the page loop up to the upload: create_page_path,
\* convert_text_to_markdown, save_temporary_md_file, results.append,
\* concat_markdown_pages_into_file
SrcPage(t) ==
    /\ pc[t] = "src_page"
    /\ UNCHANGED <<collections, points, nextId, bucket, createLog, arg>>
    /\ LET page == loc[t].i + 1
           fs1 == WriteFile(files,
                      Path("PAGE_PDF_FOLDER", "env", arg[t].pdfname, page), <<>>, t)
           conv == convert_text_to_markdown(t, page)
           tried == [loc[t] EXCEPT !.attempts[page] = @ + conv.attempts]
           pages == Append(loc[t].mdpages, conv.md)
           fs2 == WriteFile(fs1,
                      Path("MARKDOWN_PAGE_FOLDER", "env", arg[t].pdfname, page),
                      <<conv.md>>, t)
           fs3 == concat_markdown_pages_into_file(fs2, pages,
                      Path("FULL_FILE_MARKDOWN_FOLDER-docling", "env", arg[t].pdfname, 0), t)
       IN  IF ~ conv.ok
           THEN Raised(t, "ConversionError", "convert", tried, fs1)
           ELSE /\ files' = fs3
                /\ loc' = [loc EXCEPT ![t] =
                              [tried EXCEPT !.converted = @ \cup {page},
                                            !.mdpages = pages,
                                            !.results = Append(@,
                                                [pdf_name |-> arg[t].pdfname,
                                                 page |-> page, status |-> "OK"])]]
                /\ pc' = [pc EXCEPT ![t] = "src_upload"]
                /\ UNCHANGED out

\* put_markdown_file_into_oci_bucket(full_markdown_file, pdf_name,
\* "docling"): the file as it is now is PUT under the key of the PDF name
\* (a refusal of the bucket is only logged); then the loop goes on or
\* "return results"
SrcUpload(t) ==
    /\ pc[t] = "src_upload"
    /\ UNCHANGED <<collections, points, nextId, files, createLog, arg>>
    /\ LET full == Path("FULL_FILE_MARKDOWN_FOLDER-docling", "env", arg[t].pdfname, 0)
           l == [loc[t] EXCEPT !.uploads = @ + 1, !.i = @ + 1,
                               !.uploaded = ReadFile(files, full)]
       IN  /\ bucket' = {o \in bucket : o.key # arg[t].pdfname}
                           \cup {[key |-> arg[t].pdfname, content |-> ReadFile(files, full)]}
           /\ loc' = [loc EXCEPT ![t] = l]
           /\ IF l.i = arg[t].npages
              THEN /\ pc' = [pc EXCEPT ![t] = "done"]
                   /\ out' = [out EXCEPT ![t] = [NoOut EXCEPT !.state = "returned",
                                                             !.result = l.results]]
              ELSE /\ pc' = [pc EXCEPT ![t] = "src_page"]
                   /\ out' = out

\* -------------------------------------------------------------- ingest_pdf

\* the call document.pdf_to_docling_with_ocr(temp_pdf_path) binds its
\* arguments only if it passes every required one
ArgsBound == PassedArgs >= RequiredArgs

\* "except FileNotFoundError" answers 404, "except Exception" answers 500
HttpStatus(exc) == IF exc = "FileNotFoundError" THEN 404 ELSE 500

\* the endings of the uploaded file's name
FileSuffixes == {".pdf", ".PDF", ".txt", ""}

\* str.lower() on an ending
Lower(suffix) == IF suffix = ".PDF" THEN ".pdf" ELSE suffix

is_pdf_filename_any(suffix) == TRUE

\* file.filename.lower().endswith('.pdf')
is_pdf_filename(suffix) == Lower(suffix) = ".pdf"

\* a request to /ingest/pdf: the file name check (400 for a name that does
\* not end in .pdf), then the upload saved to a NamedTemporaryFile
StartIngest(t) ==
    /\ pc[t] = "idle"
    /\ UNCHANGED <<collections, points, nextId, bucket, createLog, loc>>
    /\ \E sfx \in FileSuffixes, nm \in PdfNames, p \in PdfInputs,
          c \in CollectionNames :
          /\ GoodPdf(p)
          /\ arg' = [arg EXCEPT ![t] = [NoArg EXCEPT !.entry = "http", !.coll = c,
                        !.ndocs = 1, !.pdfname = nm,
                        !.npages = p.npages, !.badPage = p.badPage,
                        !.corrupt = p.corrupt, !.suffix = sfx,
                        !.isPdf = is_pdf_filename(sfx)]]
          /\ IF is_pdf_filename(sfx)
             THEN /\ files' = WriteFile(files, Path("upload_tmp", t, "", 0), <<>>, t)
                  /\ pc' = [pc EXCEPT ![t] = "http_try"]
                  /\ out' = out
             ELSE /\ files' = files
                  /\ pc' = [pc EXCEPT ![t] = "done"]
                  /\ out' = [out EXCEPT ![t] = [NoOut EXCEPT !.state = "raised",
                                !.error = "HTTPException", !.at = "filename",
                                !.status = 400,
                                !.detail = "Only PDF files are supported"]]

\* the try block: the call of pdf_to_docling_with_ocr with one argument
\* where two are required raises TypeError before the callee runs; it is
\* answered by "except Exception" (500, the detail carrying str(e)), and
\* "finally" unlinks the temp file
IngestTry(t) ==
    /\ pc[t] = "http_try"
    /\ ~ ArgsBound
    /\ UNCHANGED <<collections, points, nextId, bucket, createLog, arg, loc>>
    /\ LET exc == "TypeError"
       IN  out' = [out EXCEPT ![t] = [NoOut EXCEPT !.state = "raised",
                       !.error = "HTTPException", !.at = "call",
                       !.status = HttpStatus(exc),
                       !.detail = IF HttpStatus(exc) = 404
                                  THEN "File not found during processing"
                                  ELSE exc]]
    /\ files' = {f \in files : f.path # Path("upload_tmp", t, "", 0)}
    /\ pc' = [pc EXCEPT ![t] = "done"]

\* ----------------------- concat_markdown_pages_into_file, app variant

\* f"{page_number}": the decimal digits of a page number
RECURSIVE Digits(_)
Digits(n) == IF n < 10 THEN <<n>> ELSE Append(Digits(n \div 10), n % 10)

\* int(...) of a string of decimal digits
RECURSIVE ParseInt(_)
ParseInt(ds) ==
    IF Len(ds) = 0 THEN 0
    ELSE 10 * ParseInt(SubSeq(ds, 1, Len(ds) - 1)) + ds[Len(ds)]

\* the order of two strings of digits as strings, as in "x-10.md" < "x-2.md"
RECURSIVE LexLess(_, _)
LexLess(a, b) ==
    IF Len(a) = 0 THEN Len(b) > 0
    ELSE IF Len(b) = 0 THEN FALSE
    ELSE IF a[1] # b[1] THEN a[1] < b[1]
    ELSE LexLess(Tail(a), Tail(b))

page_number_before_as_text(a, b) == LexLess(a, b)

\* key=lambda x: int(os.path.splitext(x)[0].split('-')[-1]): file names
\* are ordered by the number their last part spells
page_number_before(a, b) == ParseInt(a) < ParseInt(b)

\* sorted(glob.glob(...), key=...): the names in ascending order
RECURSIVE SortedNames(_)
SortedNames(names) ==
    IF names = {} THEN <<>>
    ELSE LET first == CHOOSE x \in names :
                          \A y \in names \ {x} : page_number_before(x, y)
         IN  <<first>> \o SortedNames(names \ {first})

\* glob.glob(os.path.join(pages_dir, f"{pdf_name}-*.md")): the page number
\* parts of the names of the page files of the folder
GlobPages(fs, root, owner, name) ==
    {Digits(f.path.page) :
        f \in {g \in fs : /\ g.kind = "file"
                          /\ g.path.root = root
                          /\ g.path.owner = owner
                          /\ g.path.name = name}}

\* the text the app variant writes: each file of the sorted list, in turn
RECURSIVE ConcatContent(_, _, _, _, _)
ConcatContent(fs, root, owner, name, md_files) ==
    IF md_files = <<>> THEN <<>>
    ELSE ReadFile(fs, Path(root, owner, name, ParseInt(Head(md_files))))
            \o ConcatContent(fs, root, owner, name, Tail(md_files))

\* a direct call of concat_markdown_pages_into_file(markdown_folder,
\* pdf_name, output_dir, markdown_file_name) of the app variant, on a
\* folder holding the page files of an n-page document, or on no folder
StartConcat(t) ==
    /\ pc[t] = "idle"
    /\ \E nm \in PdfNames, n \in 0..MaxConcatPages, hasDir \in BOOLEAN :
          /\ ~ hasDir => n = 0
          /\ arg' = [arg EXCEPT ![t] = [NoArg EXCEPT !.entry = "app_concat",
                                           !.pdfname = nm, !.npages = n]]
          /\ files' =
                IF ~ hasDir
                THEN {f \in files : ~ (f.path.root = "markdown_folder"
                                        /\ f.path.owner = t)}
                ELSE {f \in files : ~ (f.path.root = "markdown_folder"
                                        /\ f.path.owner = t)}
                     \cup {[path |-> Path("markdown_folder", t, nm, 0),
                            kind |-> "dir", content |-> <<>>, by |-> t]}
                     \cup {[path |-> Path("markdown_folder", t, nm, k),
                            kind |-> "file", content |-> <<PageMarkdown(t, k)>>,
                            by |-> t] : k \in 1..n}
    /\ pc' = [pc EXCEPT ![t] = "concat"]
    /\ UNCHANGED <<collections, points, nextId, bucket, createLog, loc, out>>

\* the body of the app variant: FileNotFoundError without the folder, else
\* the sorted page files written one after the other to the output file
AppConcat(t) ==
    /\ pc[t] = "concat"
    /\ UNCHANGED <<collections, points, nextId, bucket, createLog, arg>>
    /\ IF ~ FileExists(files, Path("markdown_folder", t, arg[t].pdfname, 0))
       THEN Raised(t, "FileNotFoundError", "concat", loc[t], files)
       ELSE LET md_files == SortedNames(
                    GlobPages(files, "markdown_folder", t, arg[t].pdfname))
                text == ConcatContent(files, "markdown_folder", t,
                                      arg[t].pdfname, md_files)
            IN  /\ files' = WriteFile(files,
                                Path("output", "env", arg[t].pdfname, 0), text, t)
                /\ pc' = [pc EXCEPT ![t] = "done"]
                /\ out' = [out EXCEPT ![t] = [NoOut EXCEPT !.state = "returned"]]
                /\ UNCHANGED loc

\* ------------------------------------------------------ the text splitters

\* the values a caller may pass as a strategy: the names of the app
\* variant, the names of the src variant, and a name of neither
Strategies ==
    {"recursive_character", "semantic_chunker", "recursive", "semantic", "bogus"}

\* a Markdown text, by the number of chunks each splitter cuts it into
Texts == {[rec |-> r, sem |-> s] : r, s \in 1..MaxDocs}

\* app: text_splitters_factory[name], a dict of the two splitters: any
\* other name is a KeyError
get_text_splitter_app(name) ==
    IF name = "recursive_character" THEN [ok |-> TRUE, kind |-> "recursive"]
    ELSE IF name = "semantic_chunker" THEN [ok |-> TRUE, kind |-> "semantic"]
    ELSE [ok |-> FALSE, kind |-> ""]

\* src: 'if strategy == "semantic": return SemanticChunker(...)', and for
\* every other value "return RecursiveCharacterTextSplitter(...)"
get_text_splitter_src(strategy) ==
    IF strategy = "semantic" THEN [ok |-> TRUE, kind |-> "semantic"]
    ELSE [ok |-> TRUE, kind |-> "recursive"]

\* splitter.split_text(raw_text) / create_documents([raw_text]): the
\* number of chunks of the text under the splitter
SplitText(kind, text) == IF kind = "semantic" THEN text.sem ELSE text.rec

\* a direct call of chunk_and_embed_markdown(file_path, ..., strategy),
\* either variant, on a file the caller wrote or on a path with no file
StartChunk(t) ==
    /\ pc[t] = "idle"
    /\ \E e \in {"app_chunk", "src_chunk"}, st \in Strategies, tx \in Texts,
          present \in BOOLEAN, f \in {"none", "provider"} :
          /\ arg' = [arg EXCEPT ![t] = [NoArg EXCEPT !.entry = e, !.strategy = st,
                                           !.text = tx, !.fault = f,
                                           !.present = present]]
          /\ files' = IF present
                      THEN WriteFile(files, Path("caller", t, "page", 0),
                                     <<PageMarkdown(t, 0)>>, t)
                      ELSE {g \in files : g.path # Path("caller", t, "page", 0)}
    /\ pc' = [pc EXCEPT ![t] = "chunk"]
    /\ UNCHANGED <<collections, points, nextId, bucket, createLog, loc, out>>

\* the body of chunk_and_embed_markdown: FileNotFoundError without the
\* file, the splitter of the strategy, the split (the semantic splitter
\* embeds the sentences: a provider failure is re-raised), one Document
\* per chunk
Chunk(t) ==
    /\ pc[t] = "chunk"
    /\ UNCHANGED <<collections, points, nextId, bucket, createLog, arg>>
    /\ LET splitter == IF arg[t].entry = "app_chunk"
                       THEN get_text_splitter_app(arg[t].strategy)
                       ELSE get_text_splitter_src(arg[t].strategy)
           n == SplitText(splitter.kind, arg[t].text)
       IN  IF ~ FileExists(files, Path("caller", t, "page", 0))
           THEN Raised(t, "FileNotFoundError", "open", loc[t], files)
           ELSE IF ~ splitter.ok
           THEN Raised(t, "KeyError", "splitter", loc[t], files)
           ELSE IF splitter.kind = "semantic" /\ arg[t].fault = "provider"
           THEN Raised(t, "ProviderError", "split",
                       [loc[t] EXCEPT !.embedCalls = @ + 1], files)
           ELSE /\ loc' = [loc EXCEPT ![t] =
                              [@ EXCEPT !.producedBy = splitter.kind,
                                        !.documents = n,
                                        !.embedCalls =
                                            @ + (IF splitter.kind = "semantic"
                                                 THEN 1 ELSE 0)]]
                /\ pc' = [pc EXCEPT ![t] = "done"]
                /\ out' = [out EXCEPT ![t] = [NoOut EXCEPT !.state = "returned"]]
                /\ files' = files

\* a direct call of create_embeddings_from_markdown(markdown_file,
\* collection_name, strategy) with the strategy given, on a file the
\* caller wrote
StartEmbedWith(t) ==
    /\ pc[t] = "idle"
    /\ \E c \in CollectionNames, st \in Strategies, tx \in Texts :
          LET path == Path("caller", t, "page", 0)
          IN  /\ arg' = [arg EXCEPT ![t] = [NoArg EXCEPT !.entry = "app_embed",
                            !.coll = c, !.ndocs = 1, !.dim = HardcodedSize,
                            !.strategy = st, !.text = tx]]
              /\ loc' = [loc EXCEPT ![t].mdfile = <<path>>]
              /\ files' = WriteFile(files, path, <<PageMarkdown(t, 0)>>, t)
    /\ pc' = [pc EXCEPT ![t] = "page_embed"]
    /\ UNCHANGED <<collections, points, nextId, bucket, createLog, out>>

\* the base names of the PDFs of two calls in progress together:
\* os.path.splitext(os.path.basename(pdf_path)) of /a/x.pdf, /b/x.pdf, /a/y.pdf
DocNames == {"x", "y"}

\* the collection each of the two calls is given: different names
CollectionFor(t) == IF t = "t1" THEN "testdoc" ELSE "other"

\* a call of pdf_to_docling_with_ocr, either variant, made while another
\* may be in progress, each with its own collection name
StartConcurrentDoc(t) ==
    /\ pc[t] = "idle"
    /\ \E e \in {"app_doc", "src_doc"}, nm \in DocNames, p \in PdfInputs :
          /\ GoodPdf(p)
          /\ arg' = [arg EXCEPT ![t] = [NoArg EXCEPT !.entry = e,
                        !.coll = CollectionFor(t), !.ndocs = 1,
                        !.dim = HardcodedSize, !.pdfname = nm,
                        !.npages = p.npages, !.badPage = p.badPage,
                        !.corrupt = p.corrupt]]
    /\ pc' = [pc EXCEPT ![t] = "extract"]
    /\ UNCHANGED <<collections, points, nextId, files, bucket, createLog, loc, out>>

\* no other call is in progress
Exclusive(t) == \A u \in Tasks \ {t} : pc[u] \in {"idle", "done"}

NextGateway ==
    \E t \in Tasks : StartSend(t) \/ GwCheck(t) \/ GwCreate(t) \/ GwAdd(t)

NextGatewaySeq ==
    \E t \in Tasks :
        \/ Exclusive(t) /\ StartSend(t)
        \/ Exclusive(t) /\ GwCheck(t)
        \/ Exclusive(t) /\ GwCreate(t)
        \/ Exclusive(t) /\ GwAdd(t)

Next ==
    \E t \in Tasks :
        \/ Exclusive(t) /\ StartAppDoc(t)
        \/ Exclusive(t) /\ StartSrcDoc(t)
        \/ Exclusive(t) /\ StartEmbed(t)
        \/ Exclusive(t) /\ StartIngest(t)
        \/ Exclusive(t) /\ AppExtract(t)
        \/ Exclusive(t) /\ AppPageConvert(t)
        \/ Exclusive(t) /\ AppPageEmbed(t)
        \/ Exclusive(t) /\ SrcExtract(t)
        \/ Exclusive(t) /\ SrcPage(t)
        \/ Exclusive(t) /\ SrcUpload(t)
        \/ Exclusive(t) /\ IngestTry(t)
        \/ Exclusive(t) /\ GwCheck(t)
        \/ Exclusive(t) /\ GwCreate(t)
        \/ Exclusive(t) /\ GwAdd(t)
        \/ Exclusive(t) /\ StartConcat(t)
        \/ Exclusive(t) /\ AppConcat(t)

\* calls of ingest_pdf, of pdf_to_docling_with_ocr (either variant) and of
\* create_embeddings_from_markdown, one after the other
Spec == Init /\ [][Next]_vars

NextSplit ==
    \E t \in Tasks :
        \/ Exclusive(t) /\ StartChunk(t)
        \/ Exclusive(t) /\ Chunk(t)
        \/ Exclusive(t) /\ StartEmbedWith(t)
        \/ Exclusive(t) /\ AppPageEmbed(t)
        \/ Exclusive(t) /\ GwCheck(t)
        \/ Exclusive(t) /\ GwCreate(t)
        \/ Exclusive(t) /\ GwAdd(t)

\* direct calls of chunk_and_embed_markdown and of
\* create_embeddings_from_markdown with a strategy, one after the other
SpecSplit == Init /\ [][NextSplit]_vars

NextDocs ==
    \E t \in Tasks :
        \/ StartConcurrentDoc(t)
        \/ AppExtract(t)
        \/ AppPageConvert(t)
        \/ AppPageEmbed(t)
        \/ SrcExtract(t)
        \/ SrcPage(t)
        \/ SrcUpload(t)

\* two calls of pdf_to_docling_with_ocr, interleaved at their steps
SpecDocs == Init /\ [][NextDocs]_vars

\* direct calls of send_embed_to_qdrant, interleaved at their store calls
SpecGateway == Init /\ [][NextGateway]_vars

\* direct calls of send_embed_to_qdrant, one after the other
SpecGatewaySeq == Init /\ [][NextGatewaySeq]_vars

\* ------------------------------------------------------------- properties

Done(t) == pc[t] = "done"

PointsBy(t) == {p \in points : p.by = t}

NamedCollections(name) == {c \in collections : c.name = name}

\* the first creation of a collection of this name
FirstCreation(name) ==
    createLog[CHOOSE i \in 1..Len(createLog) :
                 /\ createLog[i].name = name
                 /\ \A j \in 1..(i - 1) : createLog[j].name # name]

DocEntries == {"app_doc", "src_doc"}

\* every collaborator of the call of task t succeeds
AllSucceed(t) ==
    /\ arg[t].fault = "none"
    /\ ~ arg[t].corrupt
    /\ arg[t].badPage = 0
    /\ arg[t].dim = HardcodedSize

\* C1: two callers of send_embed_to_qdrant that both saw the same
\* collection absent and are both past the ensure-collection step: neither
\* failed in that step, and exactly one collection of the name exists.
C1_CreateRaceTolerated ==
    \A t, u \in Tasks :
        ( /\ t # u
          /\ arg[t].coll = arg[u].coll
          /\ arg[t].fault = "none" /\ arg[u].fault = "none"
          /\ loc[t].sawAbsent /\ loc[u].sawAbsent
          /\ pc[t] \in {"gw_add", "done"} /\ pc[u] \in {"gw_add", "done"} )
        => /\ out[t].at # "ensure"
           /\ out[u].at # "ensure"
           /\ Cardinality(NamedCollections(arg[t].coll)) = 1

\* C2: with calls of send_embed_to_qdrant run one after the other, no call
\* whose collaborators work raises in the ensure-collection step, and once
\* a call is past that step exactly one collection of its name exists,
\* with the size and metric of the first creation of that name.
C2_EnsureIdempotent ==
    \A t \in Tasks :
        /\ arg[t].fault = "none" => out[t].at # "ensure"
        /\ loc[t].ensured =>
              /\ Cardinality(NamedCollections(arg[t].coll)) = 1
              /\ \A c \in NamedCollections(arg[t].coll) :
                    /\ c.size = FirstCreation(arg[t].coll).size
                    /\ c.metric = FirstCreation(arg[t].coll).metric

\* C2 witness: two finished calls for the same name and size, the first of
\* which created the collection and the second of which found it.
C2_Witness ==
    \E t, u \in Tasks :
        /\ t # u
        /\ arg[t].coll = arg[u].coll
        /\ VectorSize(t) = VectorSize(u)
        /\ Done(t) /\ Done(u)
        /\ out[t].state = "returned" /\ out[u].state = "returned"
        /\ loc[t].sawAbsent /\ loc[t].ensured
        /\ ~ loc[u].sawAbsent /\ loc[u].ensured

C4_IngestSucceeds ==
    \A t \in Tasks :
        ( /\ Done(t)
          /\ arg[t].entry = "http"
          /\ arg[t].isPdf
          /\ arg[t].npages > 0
          /\ AllSucceed(t) )
        => /\ out[t].state = "returned"
           /\ out[t].status = 200

\* C5: an n-page PDF whose collaborators all succeed ends with n results,
\* n points of the provider's size in the named collection, and a document
\* count of n.
C5_EndToEnd ==
    \A t \in Tasks :
        ( /\ Done(t)
          /\ arg[t].entry = "app_doc"
          /\ arg[t].npages > 0
          /\ AllSucceed(t) )
        => /\ out[t].state = "returned"
           /\ Len(out[t].result) = arg[t].npages
           /\ Cardinality({p \in PointsBy(t) :
                              p.coll = arg[t].coll /\ p.vector = arg[t].dim})
                 = arg[t].npages

\* C6: pdf_to_docling_with_ocr on a readable PDF of zero pages ends in a
\* failure, with no page converted, no file written and no store call.
C6_NoPagesFails ==
    \A t \in Tasks :
        ( /\ Done(t)
          /\ arg[t].entry \in DocEntries
          /\ ~ arg[t].corrupt
          /\ arg[t].npages = 0 )
        => /\ out[t].state = "raised"
           /\ loc[t].converted = {}
           /\ ~ \E f \in files : f.by = t /\ f.kind = "file"
           /\ loc[t].storeCalls = 0

\* C7: every point in the store has a vector of its collection's size; a
\* call that reaches the embed-and-upsert step with documents and a
\* provider whose output size differs from the collection's size raises
\* (DimensionMismatch when nothing else fails) and stores no point.
C7_DimensionInvariant ==
    /\ \A p \in points :
          \E c \in collections : c.name = p.coll /\ c.size = p.vector
    /\ \A t \in Tasks :
          ( /\ Done(t)
            /\ loc[t].ensured
            /\ arg[t].ndocs > 0
            /\ arg[t].dim # CollectionOf(collections, arg[t].coll).size )
          => /\ out[t].state = "raised"
             /\ arg[t].fault = "none" => out[t].error = "DimensionMismatch"
             /\ PointsBy(t) = {}

\* C7 witness: a call failed on a dimension mismatch while the collection
\* holds points of another call.
C7_Witness ==
    \E t \in Tasks :
        /\ Done(t)
        /\ out[t].error = "DimensionMismatch"
        /\ arg[t].ndocs > 0
        /\ \E p \in points : p.coll = arg[t].coll /\ p.by # t

\* C8: once the conversion of page k has failed it was attempted exactly
\* once, the call has ended with that failure, and no page after k was
\* split out, converted, saved, embedded or upserted.
C8_ConversionFailure ==
    \A t \in Tasks : \A k \in 1..MaxPages :
        ( /\ arg[t].entry \in DocEntries
          /\ arg[t].badPage = k
          /\ loc[t].attempts[k] > 0 )
        => /\ loc[t].attempts[k] = 1
           /\ Done(t)
           /\ out[t].state = "raised"
           /\ out[t].error = "ConversionError"
           /\ \A p \in 1..MaxPages :
                 p > k => /\ loc[t].attempts[p] = 0
                          /\ p \notin loc[t].converted
                          /\ ~ \E f \in files : f.by = t /\ f.path.page = p
                          /\ ~ \E q \in PointsBy(t) : q.page = p
           /\ ~ \E q \in PointsBy(t) : q.page = k

\* C8 witness: the conversion of the second page of a document failed
\* after the first page was processed.
C8_Witness ==
    \E t \in Tasks :
        /\ Done(t)
        /\ arg[t].entry \in DocEntries
        /\ arg[t].npages = 2
        /\ arg[t].badPage = 2
        /\ loc[t].converted = {1}
        /\ out[t].error = "ConversionError"

\* C9: ingest_pdf answers an upload whose extraction or page conversion
\* fails with 404, and any answer of 500 carries the error's message.
C9_ErrorMapping ==
    \A t \in Tasks :
        (Done(t) /\ arg[t].entry = "http" /\ arg[t].isPdf)
        => /\ (arg[t].corrupt \/ arg[t].badPage > 0) => out[t].status = 404
           /\ out[t].status = 500 => out[t].detail # ""

\* C10: once a call has ended, no temporary file or directory it made is
\* left: not the uploaded temp PDF, not a page PDF, not a page Markdown.
C10_TempCleaned ==
    \A t \in Tasks :
        Done(t) =>
            ~ \E f \in files :
                /\ f.by = t
                /\ f.path.root \in {"upload_tmp", "tmp_page_pdf", "tmp_markdown",
                                    "PAGE_PDF_FOLDER", "MARKDOWN_PAGE_FOLDER"}

\* C11: pages are converted in increasing page-number order, and a
\* concatenated Markdown file holds its pages in increasing page-number
\* order, for ten pages and more: the file either variant of
\* concat_markdown_pages_into_file wrote holds page 1, page 2, ... of one
\* document, and the app variant's holds every page of the folder.
C11_PageOrder ==
    /\ \A t \in Tasks :
          /\ loc[t].converted = 1..Cardinality(loc[t].converted)
          /\ \A p \in 1..MaxPages :
                loc[t].attempts[p] > 0 => \A q \in 1..(p - 1) : q \in loc[t].converted
    /\ \A f \in files :
          (f.kind = "file" /\ f.path.root \in {"output", "FULL_FILE_MARKDOWN_FOLDER-docling"})
          => /\ \A i \in 1..Len(f.content) : f.content[i] = PageMarkdown(f.by, i)
             /\ arg[f.by].entry = "app_concat" => Len(f.content) = arg[f.by].npages

\* C11 witness: the app variant concatenated a folder of ten or more pages.
C11_Witness ==
    \E t \in Tasks :
        /\ Done(t)
        /\ arg[t].entry = "app_concat"
        /\ arg[t].npages >= 10
        /\ \E f \in files :
              /\ f.path = Path("output", "env", arg[t].pdfname, 0)
              /\ f.by = t
              /\ Len(f.content) = arg[t].npages

\* C12: a call of chunk_and_embed_markdown on an existing file with a
\* strategy that is not a name its variant knows ends in an error; it does
\* not return documents cut by one of the two splitters.
C12_UnknownStrategyFails ==
    \A t \in Tasks :
        ( /\ Done(t)
          /\ arg[t].present
          /\ \/ /\ arg[t].entry = "app_chunk"
                /\ arg[t].strategy \notin {"recursive_character", "semantic_chunker"}
             \/ /\ arg[t].entry = "src_chunk"
                /\ arg[t].strategy \notin {"recursive", "semantic"} )
        => /\ out[t].state = "raised"
           /\ loc[t].producedBy = ""

\* C13: a call of send_embed_to_qdrant with an empty list of documents
\* returns without raising and writes no point.
C13_EmptyIsNoOp ==
    \A t \in Tasks :
        (Done(t) /\ arg[t].entry \in GatewayEntries /\ arg[t].ndocs = 0
                 /\ arg[t].fault = "none")
        => /\ out[t].state = "returned"
           /\ PointsBy(t) = {}

\* C14: a request to /ingest/pdf whose file name does not end in ".pdf",
\* in any letter case, is answered 400 at once: no temp file is written, no
\* page is extracted or converted, and no embedding or store call is made.
C14_NonPdfRejected ==
    \A t \in Tasks :
        ( /\ arg[t].entry = "http"
          /\ arg[t].suffix \notin {".pdf", ".PDF"} )
        => /\ Done(t)
           /\ out[t].state = "raised"
           /\ out[t].status = 400
           /\ \A f \in files : f.by # t
           /\ loc[t] = NoLoc

C14_Witness ==
    \E t \in Tasks :
        /\ Done(t)
        /\ arg[t].entry = "http"
        /\ arg[t].suffix = ".txt"
        /\ out[t].status = 400

\* C15: the splitter_type that create_embeddings_from_markdown returns
\* names the splitter that produced the Documents it stored, and its
\* document_count is the number of chunks that splitter cut the text into.
C15_StrategyHonoured ==
    \A t \in Tasks :
        ( /\ Done(t)
          /\ arg[t].entry = "app_embed"
          /\ arg[t].strategy \in {"recursive_character", "semantic_chunker"}
          /\ out[t].state = "returned" )
        => LET r == out[t].result[1]
           IN  /\ loc[t].producedBy = get_text_splitter_app(r.splitter_type).kind
               /\ r.document_count = SplitText(loc[t].producedBy, arg[t].text)

\* the Markdown of the pages of the document of task t, in page order
OwnPages(t) == [k \in 1..arg[t].npages |-> PageMarkdown(t, k)]

\* C16: two calls of pdf_to_docling_with_ocr in progress together, for
\* different collections, do not touch each other's output: what a call
\* that returned has uploaded as its Markdown file is exactly its own pages,
\* and every point of its collection is a point of its own document, also
\* when the two PDFs have the same base name.
C16_NoInterference ==
    \A t \in Tasks :
        (Done(t) /\ arg[t].entry \in DocEntries /\ out[t].state = "returned")
        => /\ arg[t].npages > 0 => loc[t].uploaded = OwnPages(t)
           /\ \A p \in points : p.coll = arg[t].coll => p \in PointsBy(t)

\* the phase of the call of task t
PhaseOf(t) ==
    CASE pc[t] = "idle" -> "Idle"
      [] pc[t] = "extract" -> "Extracting"
      [] pc[t] \in {"page_convert", "src_page"} -> "Converting"
      [] pc[t] = "page_embed" -> "Splitting"
      [] pc[t] \in {"gw_check", "gw_create", "gw_add"} -> "Embedding"
      [] pc[t] = "done" /\ out[t].state = "returned" -> "Upserted"
      [] pc[t] = "done" /\ out[t].state # "returned" -> "Failed"
      [] OTHER -> "Other"

\* the steps from one phase to the next: page by page, and from every
\* phase to Failed
PhaseSteps ==
    {<<"Idle", "Extracting">>, <<"Extracting", "Converting">>,
     <<"Converting", "Splitting">>, <<"Splitting", "Embedding">>,
     <<"Embedding", "Embedding">>, <<"Embedding", "Converting">>,
     <<"Embedding", "Upserted">>}
    \cup {<<ph, "Failed">> : ph \in {"Extracting", "Converting", "Splitting", "Embedding"}}

\* the page in hand is embedded, stored or uploaded only once converted;
\* a page is converted only once the page before it is finished with; a
\* call has an outcome exactly when it has ended
PhaseInv(t) ==
    /\ (arg[t].entry = "app_doc"
            /\ pc[t] \in {"page_embed", "gw_check", "gw_create", "gw_add"})
       \/ pc[t] = "src_upload"
       => /\ loc[t].i + 1 \in loc[t].converted
          /\ loc[t].i + 1 # arg[t].badPage
    /\ \A p \in PointsBy(t) : arg[t].entry = "app_doc" => p.page \in loc[t].converted
    /\ \A p \in 2..MaxPages : loc[t].attempts[p] > 0 => loc[t].i >= p - 1
    /\ Done(t) <=> out[t].state \in {"returned", "raised"}
    /\ out[t].state \in {"none", "returned", "raised"}

\* C17: a call of pdf_to_docling_with_ocr goes through extracting,
\* converting, splitting and embedding in this order, page by page, and ends
\* as Upserted or Failed; a page is embedded or stored only after its
\* conversion, page i+1 is converted only after page i is finished with, and
\* after the end of the call nothing of it changes any more.
C17_Phases ==
    /\ [](\A t \in Tasks : arg[t].entry \in DocEntries => PhaseInv(t))
    /\ [][\A t \in Tasks :
             /\ arg[t]'.entry = "app_doc"
                => \/ PhaseOf(t)' = PhaseOf(t)
                   \/ <<PhaseOf(t), PhaseOf(t)'>> \in PhaseSteps
             /\ (arg[t].entry \in DocEntries /\ Done(t))
                => /\ Done(t)'
                   /\ loc[t]' = loc[t]
                   /\ out[t]' = out[t]
                   /\ PointsBy(t)' = PointsBy(t)]_vars

C17_Witness ==
    \E t \in Tasks :
        /\ Done(t)
        /\ arg[t].entry = "app_doc"
        /\ PhaseOf(t) = "Failed"
        /\ out[t].at = "open"
        /\ loc[t].attempts[1] = 1
        /\ loc[t].embedCalls = 0

\* the first n pages of the document of task t
FirstPages(t, n) == [k \in 1..n |-> PageMarkdown(t, k)]

\* C18: in the src variant, when i pages are done the full Markdown file
\* holds the pages 1..i in order and i uploads have been made, each of the
\* file as it then was; a call that returns has made one upload per page
\* and leaves the file with all its pages.
C18_IncrementalFile ==
    \A t \in Tasks :
        arg[t].entry = "src_doc"
        => LET full == Path("FULL_FILE_MARKDOWN_FOLDER-docling", "env",
                            arg[t].pdfname, 0)
               n == Cardinality(loc[t].converted)
           IN  /\ loc[t].uploads = loc[t].i
               /\ loc[t].uploads > 0 => loc[t].uploaded = FirstPages(t, loc[t].uploads)
               /\ n \in {loc[t].i, loc[t].i + 1}
               /\ n > 0 => FileExists(files, full)
               /\ \A f \in files :
                     (f.path = full /\ f.by = t) => f.content = FirstPages(t, n)
               /\ (pc[t] \in {"src_page", "src_upload"} /\ n > 0)
                  => ReadFile(files, full) = FirstPages(t, n)
               /\ (Done(t) /\ out[t].state = "returned")
                  => loc[t].uploads = arg[t].npages /\ n = arg[t].npages

C18_Witness ==
    \E t \in Tasks :
        /\ Done(t)
        /\ arg[t].entry = "src_doc"
        /\ out[t].state = "returned"
        /\ arg[t].npages = MaxPages
        /\ loc[t].uploads = MaxPages
        /\ loc[t].uploaded = FirstPages(t, MaxPages)

====
